---- MODULE Spec2Model ----
(***************************************************************************)
(* Model of the conversation synchronisation and realtime messaging client *)
(* of covecrm-mobile: the socket registry (lib/socketClient.ts), the       *)
(* conversation-list diff and the thread loader of ConversationsScreen.tsx *)
(* and FoldersScreen.tsx.                                                  *)
(*                                                                         *)
(* The specifications share the variables:                                 *)
(*   SpecSocket  the registry, connectAndJoin / disconnectSocket, the      *)
(*               views' socket wiring effect and the transport's events    *)
(*   SpecThread  selection, fetchMessages and the composer                 *)
(*   SpecRealtime  selection, fetchMessages and both realtime events       *)
(*   SpecEcho    SpecThread with the newMessage echo of a sent message     *)
(*   SpecDiff    the banner-candidate computation of fetchConversations    *)
(*   SpecLink    App navigation, notifications and the deep-link effect    *)
(*   SpecSync    polling, fetchConversations and the banner timeout        *)
(*   SpecBanner  SpecSync with the timeouts of the view being served       *)
(*   SpecVoice   lib/voiceClient.ts: registration and outbound calls       *)
(*   SpecSession App.tsx login / logout with the registry and the wiring   *)
(***************************************************************************)
EXTENDS Integers, Sequences, FiniteSets, TLC

VARIABLES
  gsocket,        \* global.__crm_mobile_socket__   (NoSocket or a socket id)
  gemail,         \* global.__crm_mobile_socket_email__ (Null or Some(string))
  created,        \* number of Socket objects createClient has built so far
  connState,      \* per socket: "idle" | "connecting" | "connected" | "closed"
  listeners,      \* per socket: the event names that have a listener bound
  joins,          \* per socket: identities of the emit("join", ..) calls made
                  \* for the socket's current connection establishment
  viewWired,      \* the mounted view's wiring effect has a cleanup pending
  lastOp,         \* the call or event of the latest step, with its result
  selectedConv,   \* ConversationsScreen state selectedConv (its _id or NoConv)
  effectConv,     \* the selectedConv._id the selection effect last ran for
  messages,       \* state messages
  loadingMessages,\* state loadingMessages
  msgError,       \* state msgError (FALSE for null, TRUE for a message)
  msgInflight,    \* fetchMessages calls awaiting their response
  input,          \* state input (the text of the composer)
  sendInflight,   \* handleSend calls awaiting the response of the POST
  prevList,       \* conversationsRef.current at the resolution of a fetch
  list,           \* the list of the response
  fromPoll,       \* opts.fromPoll of the fetchConversations call
  newestInbound,  \* the banner candidate computed (Null or Some(conversation))
  bannerConv,     \* state bannerConv (Null or Some(conversation))
  bannerVisible,  \* state bannerVisible
  diffPc,         \* "fetching" | "done"
  token,          \* App state token (Null or Some(jwt))
  screen,         \* App state screen
  deepLinkTarget, \* App state deepLinkTarget (Null or Some(target))
  conversations,  \* state conversations of the mounted view
  effectPending,  \* a dependency of the deep-link effect changed since it ran
  conversationsRef,  \* conversationsRef.current
  convInflight,      \* fetchConversations calls awaiting their response
                     \* (retry: the call cleared the error of a failed one)
  intervalActive,    \* the polling interval of the view is set
  bannerTimers,      \* the banner timeouts that are set and have not fired
  bannerTimeoutRef,  \* bannerTimeoutRef.current
  loadingConvs,      \* state loadingConvs
  convError,         \* state convError is set
  mobileAuthToken,   \* lib/voiceClient.ts mobileAuthToken (Null or Some(jwt))
  registeredToken,   \* lib/voiceClient.ts registeredToken (Null or Some(token))
  registering,       \* lib/voiceClient.ts registering
  calls,             \* startOutboundCallFromMobile calls that are suspended
  user,              \* App state user (Null or Some(email))
  echoes             \* newMessage events for sent messages, not yet delivered

sockVars   == <<gsocket, gemail, created, connState, listeners, joins, viewWired>>
threadVars == <<selectedConv, effectConv, messages, loadingMessages, msgError,
                msgInflight, input, sendInflight>>
diffVars   == <<prevList, list, fromPoll, newestInbound, bannerConv,
                bannerVisible, diffPc>>
linkVars   == <<token, screen, deepLinkTarget, conversations, effectPending>>
syncVars   == <<conversationsRef, convInflight, intervalActive, bannerTimers,
                bannerTimeoutRef, loadingConvs, convError>>
voiceVars  == <<mobileAuthToken, registeredToken, registering, calls>>
vars       == <<sockVars, threadVars, diffVars, linkVars, syncVars, voiceVars,
                user, echoes, lastOp>>

----------------------------------------------------------------------------
(* Bounds *)

MaxSockets == 2     \* Socket objects built in one run
MaxJoins   == 2     \* join emits recorded per connection establishment
MaxInflight == 2    \* fetchMessages calls in flight at once
MaxMsgs    == 1     \* messages in one thread of the server
MaxSends   == 1     \* handleSend calls in flight at once
MaxThread  == 2     \* messages held in the state messages
MaxUnread  == 2     \* largest unreadCount a response carries
MaxTime    == 1     \* largest lastMessageTime (0 stands for an absent one)
MaxLen     == 2     \* conversations in a response
MaxListed  == 2     \* conversations the view lists while a deep link resolves
MaxFetches == 2     \* fetchConversations calls in flight at once
MaxTimers  == 2     \* timeout identifiers in use at once
MaxPrevLen == 1     \* conversations in the previous snapshot
MaxCalls   == 2     \* startOutboundCallFromMobile calls suspended at once
MaxEchoes  == 1     \* newMessage events for sent messages in flight at once

----------------------------------------------------------------------------
(* Strings are sequences of characters, so that trim() and toLowerCase()  *)
(* are computed and not assumed.                                           *)

Null      == <<>>            \* null / undefined
Some(x)   == <<x>>
NoSocket  == 0

lowerChar(c) ==
  CASE c = "A" -> "a"
    [] c = "B" -> "b"
    [] OTHER   -> c

toLowerCase(s) == [i \in 1..Len(s) |-> lowerChar(s[i])]

RECURSIVE trimStart(_)
trimStart(s) ==
  IF s # <<>> /\ Head(s) = " " THEN trimStart(Tail(s)) ELSE s

RECURSIVE trimEnd(_)
trimEnd(s) ==
  IF s # <<>> /\ s[Len(s)] = " " THEN trimEnd(SubSeq(s, 1, Len(s) - 1)) ELSE s

trim(s) == trimEnd(trimStart(s))

\* The userEmail arguments the callers pass; <<>> also stands for null
\* and undefined, which (userEmail || "") turns into "".
EmailInputs ==
  { <<>>, <<" ">>, <<"a">>, <<" ", "A">>, <<"B", " ">> }

SocketIds == 1..MaxSockets

ViewEvents   == {"newMessage", "message:new"}
ClientEvents == {"connect_error", "error", "connect"}

----------------------------------------------------------------------------
(* lib/socketClient.ts *)

\* connectAndJoin line 93: (userEmail || "").trim().toLowerCase()
normalizeTrimOnly(userEmail) == trim(userEmail)
normalize(userEmail) == toLowerCase(trim(userEmail))

\* connectAndJoin line 94: normalized || null
storedEmail(normalized) ==
  IF normalized = <<>> THEN Null ELSE Some(normalized)

\* getSocket line 82: if (!global.__crm_mobile_socket__) build one
needsClientAlways(registered) == TRUE
needsClient(registered) == registered = NoSocket

\* createClient lines 61-74: the listeners a new client starts with
createClientListeners == ClientEvents

\* disconnectSocket line 110: socket.removeAllListeners()
removeAllListenersKeeps(ls) == ls
removeAllListeners(ls) == {}

\* createClient lines 70-71: the connect handler joins when an email is stored
connectHandlerNeverJoins(email) == FALSE
connectHandlerJoins(email) == email # Null

\* connectAndJoin line 99: if (normalized) socket.emit("join", normalized)
directJoin(normalized) == normalized # <<>>

\* The socket getSocket() returns and the registry after the call.
getSocketResult ==
  IF needsClient(gsocket) THEN created + 1 ELSE gsocket

getSocketMade == needsClient(gsocket)

CanGetSocket == ~needsClient(gsocket) \/ created < MaxSockets

\* The record of a step: its name, the name of the step before it and the
\* socket that step returned or acted on (NoSocket when it had none).
Op(name, fields) ==
  [op |-> name, after |-> lastOp.op,
   afterRet |-> IF "ret" \in DOMAIN lastOp THEN lastOp.ret ELSE NoSocket]
  @@ fields

\* The record of a step of a view: its name and what it did.
Step(name, fields) == [op |-> name] @@ fields

\* export function getSocket()
getSocket ==
  /\ CanGetSocket
  /\ LET s == getSocketResult IN
     /\ gsocket' = s
     /\ created' = IF getSocketMade THEN created + 1 ELSE created
     /\ listeners' = IF getSocketMade
                       THEN [listeners EXCEPT ![s] = createClientListeners]
                       ELSE listeners
     /\ lastOp' = Op("getSocket",
                     [ret |-> s, prevSock |-> gsocket, made |-> getSocketMade])
  /\ UNCHANGED <<gemail, connState, joins, viewWired>>

\* The effect of connectAndJoin(userEmail) on the socket state: returns the
\* new values of <<gsocket, created, listeners, connState, joins, gemail>>.
connectAndJoinState(userEmail) ==
  LET s    == getSocketResult
      made == getSocketMade
      norm == normalize(userEmail)
      ls   == IF made THEN [listeners EXCEPT ![s] = createClientListeners]
                      ELSE listeners
      cs   == IF connState[s] # "connected"
                THEN [connState EXCEPT ![s] = "connecting"]
                ELSE connState
      js   == IF directJoin(norm)
                THEN [joins EXCEPT ![s] = Append(@, norm)]
                ELSE joins
  IN [sock |-> s, made |-> made,
      created |-> IF made THEN created + 1 ELSE created,
      listeners |-> ls, connState |-> cs, joins |-> js,
      gemail |-> storedEmail(norm)]

CanConnectAndJoin ==
  /\ CanGetSocket
  /\ Len(joins[getSocketResult]) < MaxJoins

\* export function connectAndJoin(userEmail) -- called by handleLogin
connectAndJoin(userEmail) ==
  /\ CanConnectAndJoin
  /\ LET r == connectAndJoinState(userEmail) IN
     /\ gsocket' = r.sock
     /\ created' = r.created
     /\ listeners' = r.listeners
     /\ connState' = r.connState
     /\ joins' = r.joins
     /\ gemail' = r.gemail
     /\ lastOp' = Op("connectAndJoin",
                     [arg |-> userEmail, ret |-> r.sock, made |-> r.made,
                      prevSock |-> gsocket, prevEmail |-> gemail,
                      stateBefore |-> connState[r.sock],
                      joinsBefore |-> Len(joins[r.sock])])
  /\ UNCHANGED viewWired

\* disconnectSocket line 114: the stored email is set to null
clearedEmailKeeps(email) == email
clearedEmail(email) == Null

\* export function disconnectSocket() -- called by handleLogout
disconnectSocket ==
  /\ CanGetSocket
  /\ LET s    == getSocketResult
         made == getSocketMade
         ls   == IF made THEN [listeners EXCEPT ![s] = createClientListeners]
                         ELSE listeners
     IN
     /\ listeners' = [ls EXCEPT ![s] = removeAllListeners(@)]
     /\ connState' = [connState EXCEPT ![s] = "closed"]
     /\ created' = IF made THEN created + 1 ELSE created
     /\ gsocket' = NoSocket
     /\ gemail' = clearedEmail(gemail)
     /\ lastOp' = Op("disconnectSocket",
                     [ret |-> s, made |-> made, prevSock |-> gsocket,
                      prevEmail |-> gemail, stateBefore |-> connState[s],
                      listenersBefore |-> ls[s]])
  /\ UNCHANGED <<joins, viewWired>>

----------------------------------------------------------------------------
(* The socket wiring effect of ConversationsScreen / FoldersScreen *)

\* The effect's cleanup: getSocket() and off() for both handlers.
cleanupState(ls) ==
  LET s    == getSocketResult
      made == getSocketMade
      l1   == IF made THEN [ls EXCEPT ![s] = createClientListeners] ELSE ls
  IN [sock |-> s, made |-> made,
      listeners |-> [l1 EXCEPT ![s] = @ \ ViewEvents]]

\* The view is torn down (or its dependencies change to an empty email):
\* the cleanup of the wiring effect runs.
viewCleanup ==
  /\ viewWired
  /\ CanGetSocket
  /\ LET c == cleanupState(listeners) IN
     /\ gsocket' = c.sock
     /\ created' = IF c.made THEN created + 1 ELSE created
     /\ listeners' = c.listeners
     /\ lastOp' = Op("viewCleanup",
                     [ret |-> c.sock, made |-> c.made, prevSock |-> gsocket])
  /\ viewWired' = FALSE
  /\ UNCHANGED <<gemail, connState, joins>>

\* The wiring effect runs (mount, or userEmail / selectedConv._id / token
\* changed and the previous cleanup has run): connectAndJoin, then on() for
\* both handlers.
viewEffect(userEmail) ==
  /\ ~viewWired
  /\ normalize(userEmail) # <<>>
  /\ CanConnectAndJoin
  /\ LET r == connectAndJoinState(userEmail) IN
     /\ gsocket' = r.sock
     /\ created' = r.created
     /\ listeners' = [r.listeners EXCEPT ![r.sock] = @ \cup ViewEvents]
     /\ connState' = r.connState
     /\ joins' = r.joins
     /\ gemail' = r.gemail
     /\ lastOp' = Op("viewEffect",
                     [arg |-> userEmail, ret |-> r.sock, made |-> r.made,
                      prevSock |-> gsocket, prevEmail |-> gemail,
                      stateBefore |-> connState[r.sock],
                      joinsBefore |-> Len(joins[r.sock])])
  /\ viewWired' = TRUE

----------------------------------------------------------------------------
(* The transport: events socket.io raises on a Socket object *)

\* The transport establishes the connection of s and raises "connect";
\* the handler of createClient lines 69-74 runs when it is still bound.
connectEvent(s) ==
  /\ s \in 1..created
  /\ connState[s] \in {"connecting", "closed"}
  /\ Len(joins[s]) < MaxJoins
  /\ LET ran  == listeners[s] \cap {"connect"}
         emit == ran # {} /\ connectHandlerJoins(gemail)
     IN
     /\ connState' = IF connState[s] = "connecting"
                       THEN [connState EXCEPT ![s] = "connected"]
                       ELSE connState
     /\ joins' = IF emit
                   THEN [joins EXCEPT ![s] = Append(@, toLowerCase(gemail[1]))]
                   ELSE joins
     /\ lastOp' = Op("event",
                     [event |-> "connect", sock |-> s, ran |-> ran,
                      closed |-> connState[s] = "closed",
                      joinsBefore |-> Len(joins[s])])
  /\ UNCHANGED <<gsocket, gemail, created, listeners, viewWired>>

\* The connection of s drops; socket.io reconnects on its own.
transportDrop(s) ==
  /\ s \in 1..created
  /\ connState[s] = "connected"
  /\ connState' = [connState EXCEPT ![s] = "connecting"]
  /\ joins' = [joins EXCEPT ![s] = <<>>]
  /\ lastOp' = Op("drop", [sock |-> s])
  /\ UNCHANGED <<gsocket, gemail, created, listeners, viewWired>>

\* A newMessage / message:new packet reaches s (possibly one that was in
\* flight when s was disconnected); the bound handlers run.
serverEvent(s, e) ==
  /\ s \in 1..created
  /\ connState[s] \in {"connected", "closed"}
  /\ lastOp' = Op("event",
                  [event |-> e, sock |-> s, ran |-> listeners[s] \cap {e},
                   closed |-> connState[s] = "closed",
                   joinsBefore |-> Len(joins[s])])
  /\ UNCHANGED sockVars

----------------------------------------------------------------------------

InitSock ==
  /\ gsocket = NoSocket
  /\ gemail = Null
  /\ created = 0
  /\ connState = [s \in SocketIds |-> "idle"]
  /\ listeners = [s \in SocketIds |-> {}]
  /\ joins = [s \in SocketIds |-> <<>>]
  /\ viewWired = FALSE

NextSock ==
  \/ getSocket
  \/ \E e \in EmailInputs : connectAndJoin(e)
  \/ disconnectSocket
  \/ viewCleanup
  \/ \E e \in EmailInputs : viewEffect(e)
  \/ \E s \in SocketIds : connectEvent(s)
  \/ \E s \in SocketIds : transportDrop(s)
  \/ \E s \in SocketIds, e \in ViewEvents : serverEvent(s, e)

----------------------------------------------------------------------------
(* The thread loader: selection, the selection effect and fetchMessages *)

ConvIds == {"a", "b"}
NoConv  == "none"

\* The message lists the server may return for a lead: its thread so far.
Message(lead, n) == [leadId |-> lead, n |-> n]
ServerThread(lead, k) == [i \in 1..k |-> Message(lead, i)]
ServerThreads(lead) == { ServerThread(lead, k) : k \in 0..MaxMsgs }

RemoveAt(q, i) == SubSeq(q, 1, i - 1) \o SubSeq(q, i + 1, Len(q))

\* handleSelectConversation(conv): setSelectedConv(conv)
handleSelectConversation(c) ==
  /\ selectedConv' = c
  /\ lastOp' = Step("select", [conv |-> c])
  /\ UNCHANGED <<effectConv, messages, loadingMessages, msgError, msgInflight,
                 input, sendInflight>>

\* FoldersScreen handleBackFromThread
handleBackFromThread ==
  /\ selectedConv # NoConv
  /\ selectedConv' = NoConv
  /\ messages' = <<>>
  /\ msgError' = FALSE
  /\ lastOp' = Step("back", [conv |-> selectedConv])
  /\ UNCHANGED <<effectConv, loadingMessages, msgInflight, input, sendInflight>>

\* useEffect(.., [selectedConv?._id]): runs after a render in which the
\* selected id changed; starts fetchMessages up to its first await.
selectionEffect ==
  /\ effectConv # selectedConv
  /\ effectConv' = selectedConv
  /\ IF selectedConv # NoConv
       THEN /\ Len(msgInflight) < MaxInflight
            /\ loadingMessages' = TRUE
            /\ msgError' = FALSE
            /\ msgInflight' =
                 Append(msgInflight, [lead |-> selectedConv, stage |-> "fetch"])
            /\ UNCHANGED messages
       ELSE /\ messages' = <<>>
            /\ UNCHANGED <<loadingMessages, msgError, msgInflight>>
  /\ lastOp' = Step("selectionEffect", [conv |-> selectedConv])
  /\ UNCHANGED <<selectedConv, input, sendInflight>>

\* fetchMessages lines 244-246: the response arrived and is ok; the list is
\* stored and the mark-read request is awaited.
fetchMessagesOk(i, resp) ==
  /\ i \in 1..Len(msgInflight)
  /\ msgInflight[i].stage = "fetch"
  /\ resp \in ServerThreads(msgInflight[i].lead)
  /\ messages' = resp
  /\ msgInflight' = [msgInflight EXCEPT ![i].stage = "markRead"]
  /\ lastOp' = Step("fetchMessagesOk",
                  [lead |-> msgInflight[i].lead, selected |-> selectedConv])
  /\ UNCHANGED <<selectedConv, effectConv, loadingMessages, msgError, input,
                 sendInflight>>

\* fetchMessages lines 238-242, 261-267: the fetch rejected or was not ok.
fetchMessagesFail(i) ==
  /\ i \in 1..Len(msgInflight)
  /\ msgInflight[i].stage = "fetch"
  /\ msgError' = TRUE
  /\ messages' = <<>>
  /\ loadingMessages' = FALSE
  /\ msgInflight' = RemoveAt(msgInflight, i)
  /\ lastOp' = Step("fetchMessagesFail", [lead |-> msgInflight[i].lead])
  /\ UNCHANGED <<selectedConv, effectConv, input, sendInflight>>

\* fetchMessages lines 249-267: the mark-read request settled (resolved or
\* rejected, the rejection is caught); the finally block runs.
markReadSettled(i) ==
  /\ i \in 1..Len(msgInflight)
  /\ msgInflight[i].stage = "markRead"
  /\ loadingMessages' = FALSE
  /\ msgInflight' = RemoveAt(msgInflight, i)
  /\ lastOp' = Step("markReadSettled", [lead |-> msgInflight[i].lead])
  /\ UNCHANGED <<selectedConv, effectConv, messages, msgError, input,
                 sendInflight>>

\* The texts the user may have typed into the composer.
Inputs == { <<>>, <<" ">>, <<" ", "h", " ">> }

\* TextInput onChangeText={setInput}
setInput(text) ==
  /\ text # input
  /\ input' = text
  /\ lastOp' = Step("setInput", [text |-> text])
  /\ UNCHANGED <<selectedConv, effectConv, messages, loadingMessages, msgError,
                 msgInflight, sendInflight>>

\* handleSend line 305: if (!selectedConv || !input.trim()) return
sendRejectedUntrimmed(sel, text) == sel = NoConv \/ text = <<>>
sendRejected(sel, text) == sel = NoConv \/ trim(text) = <<>>

\* handleSend lines 304-321: the guard, the payload and the POST, up to the
\* await of the response.
handleSend ==
  /\ Len(sendInflight) < MaxSends
  /\ IF sendRejected(selectedConv, input)
       THEN /\ lastOp' = Step("handleSend", [sent |-> FALSE])
            /\ UNCHANGED sendInflight
       ELSE /\ sendInflight' =
                 Append(sendInflight,
                        [leadId |-> selectedConv, text |-> trim(input)])
            /\ lastOp' = Step("handleSend", [sent |-> TRUE])
  /\ UNCHANGED <<selectedConv, effectConv, messages, loadingMessages, msgError,
                 msgInflight, input>>

\* setMessages((prev) => [...prev, msg]), lines 332 and 364
appendedFirst(prev, msg) == <<msg>> \o prev
appended(prev, msg) == Append(prev, msg)

\* handleSend lines 333 and 337-340: the input after the POST settled
inputAfterSendKeeps(ok, text) == text
inputAfterSend(ok, text) == IF ok THEN <<>> ELSE text

\* handleSend lines 335-340: the fetchConversations calls made once the POST
\* settled, each by its fromPoll option
refreshAfterSendAlways(ok) == <<FALSE>>
refreshAfterSend(ok) == IF ok THEN <<FALSE>> ELSE <<>>

\* handleSend lines 323-336: the response is ok; the confirmed message is
\* appended, the input cleared and fetchConversations({fromPoll: false})
\* started without being awaited.
sendOk(i) ==
  /\ i \in 1..Len(sendInflight)
  /\ Len(messages) < MaxThread
  /\ messages' = appended(messages,
                          [leadId |-> sendInflight[i].leadId, n |-> 0,
                           text |-> sendInflight[i].text])
  /\ input' = inputAfterSend(TRUE, input)
  /\ sendInflight' = RemoveAt(sendInflight, i)
  /\ lastOp' = Step("sendOk",
                  [lead |-> sendInflight[i].leadId,
                   text |-> sendInflight[i].text,
                   refresh |-> refreshAfterSend(TRUE)])
  /\ UNCHANGED <<selectedConv, effectConv, loadingMessages, msgError,
                 msgInflight>>

\* handleSend lines 323-327, 337-340: the POST rejected or was not ok.
sendFail(i) ==
  /\ i \in 1..Len(sendInflight)
  /\ msgError' = TRUE
  /\ input' = inputAfterSend(FALSE, input)
  /\ sendInflight' = RemoveAt(sendInflight, i)
  /\ lastOp' = Step("sendFail",
                  [lead |-> sendInflight[i].leadId,
                   refresh |-> refreshAfterSend(FALSE)])
  /\ UNCHANGED <<selectedConv, effectConv, messages, loadingMessages,
                 msgInflight>>

\* The selection the registered newMessage / message:new handlers closed
\* over: the socket wiring effect (lines 344-405) has selectedConv?._id among
\* its dependencies and registers new handlers in the same effect pass as the
\* selection effect.
listenerSelection == effectConv

\* The leadId and direction an event may carry; NoConv is a missing leadId.
EventLeads == ConvIds \cup {NoConv}
Directions == {"inbound", "outbound"}

\* The fetchConversations calls a delivered event makes, each by its
\* fromPoll option: handleNewMessage returns at line 353 before it reaches
\* line 380, handleServerMessageNew always reaches line 392.
refreshOnNewMessage(leadId) == IF leadId = NoConv THEN <<>> ELSE <<TRUE>>
refreshOnServerMessage(leadId) == <<TRUE>>

\* handleNewMessage lines 352-381: the newMessage event is delivered.
handleNewMessage(leadId, direction) ==
  LET open == leadId # NoConv /\ listenerSelection # NoConv
              /\ leadId = listenerSelection
  IN
  /\ IF open
       THEN /\ Len(messages) < MaxThread
            /\ messages' = appended(messages, Message(leadId, 0))
       ELSE UNCHANGED messages
  /\ lastOp' = Step("handleNewMessage",
                    [lead |-> leadId, direction |-> direction,
                     markRead |-> open /\ direction = "inbound",
                     refresh |-> refreshOnNewMessage(leadId)])
  /\ UNCHANGED <<selectedConv, effectConv, loadingMessages, msgError,
                 msgInflight, input, sendInflight>>

\* handleServerMessageNew lines 383-393: the message:new event is delivered;
\* fetchMessages runs up to its first await.
handleServerMessageNew(leadId) ==
  LET open == leadId # NoConv /\ listenerSelection = leadId
  IN
  /\ IF open
       THEN /\ Len(msgInflight) < MaxInflight
            /\ loadingMessages' = TRUE
            /\ msgError' = FALSE
            /\ msgInflight' =
                 Append(msgInflight, [lead |-> leadId, stage |-> "fetch"])
       ELSE UNCHANGED <<loadingMessages, msgError, msgInflight>>
  /\ lastOp' = Step("handleServerMessageNew",
                    [lead |-> leadId, refetch |-> open,
                     refresh |-> refreshOnServerMessage(leadId)])
  /\ UNCHANGED <<selectedConv, effectConv, messages, input, sendInflight>>

InitThread ==
  /\ selectedConv = NoConv
  /\ effectConv = NoConv
  /\ messages = <<>>
  /\ loadingMessages = FALSE
  /\ msgError = FALSE
  /\ msgInflight = <<>>
  /\ input = <<>>
  /\ sendInflight = <<>>

NextThread ==
  \/ \E c \in ConvIds : handleSelectConversation(c)
  \/ handleBackFromThread
  \/ selectionEffect
  \/ \E i \in 1..MaxInflight, k \in 0..MaxMsgs :
       /\ i <= Len(msgInflight)
       /\ fetchMessagesOk(i, ServerThread(msgInflight[i].lead, k))
  \/ \E i \in 1..MaxInflight : fetchMessagesFail(i)
  \/ \E i \in 1..MaxInflight : markReadSettled(i)
  \/ \E text \in Inputs : setInput(text)
  \/ handleSend
  \/ \E i \in 1..MaxSends : sendOk(i)
  \/ \E i \in 1..MaxSends : sendFail(i)

\* The newMessage event the backend emits to the sender's room for a message
\* it stored (the "local echo" of line 395).
echoOf(send) ==
  [leadId |-> send.leadId, text |-> send.text, direction |-> "outbound"]

\* sendOk, with the echo of the stored message on its way
sendOkEchoed(i) ==
  /\ Len(echoes) < MaxEchoes
  /\ sendOk(i)
  /\ echoes' = Append(echoes, echoOf(sendInflight[i]))

\* handleNewMessage lines 352-381 for the echo j of a sent message
newMessageEcho(j) ==
  /\ j \in 1..Len(echoes)
  /\ LET m    == echoes[j]
         msg  == [leadId |-> m.leadId, n |-> 0, text |-> m.text]
         open == listenerSelection # NoConv /\ m.leadId = listenerSelection
     IN
     /\ IF open
          THEN /\ Len(messages) < MaxThread
               /\ messages' = appended(messages, msg)
          ELSE UNCHANGED messages
     /\ lastOp' = Step("handleNewMessage",
                       [lead |-> m.leadId, direction |-> m.direction,
                        markRead |-> open /\ m.direction = "inbound",
                        refresh |-> refreshOnNewMessage(m.leadId),
                        echo |-> msg, added |-> open,
                        had |-> \E k \in 1..Len(messages) :
                                  messages[k] = msg])
  /\ echoes' = RemoveAt(echoes, j)
  /\ UNCHANGED <<selectedConv, effectConv, loadingMessages, msgError,
                 msgInflight, input, sendInflight>>

\* The thread loader and the composer with the echoes of the sent messages
NextEcho ==
  \/ /\ \/ \E c \in ConvIds : handleSelectConversation(c)
        \/ handleBackFromThread
        \/ selectionEffect
        \/ \E i \in 1..MaxInflight, k \in 0..MaxMsgs :
             /\ i <= Len(msgInflight)
             /\ fetchMessagesOk(i, ServerThread(msgInflight[i].lead, k))
        \/ \E i \in 1..MaxInflight : fetchMessagesFail(i)
        \/ \E i \in 1..MaxInflight : markReadSettled(i)
        \/ \E text \in Inputs : setInput(text)
        \/ handleSend
        \/ \E i \in 1..MaxSends : sendFail(i)
     /\ UNCHANGED echoes
  \/ \E i \in 1..MaxSends : sendOkEchoed(i)
  \/ \E j \in 1..MaxEchoes : newMessageEcho(j)

\* The thread loader with the realtime events, the composer left idle.
NextRealtime ==
  \/ \E c \in ConvIds : handleSelectConversation(c)
  \/ handleBackFromThread
  \/ selectionEffect
  \/ \E i \in 1..MaxInflight, k \in 0..MaxMsgs :
       /\ i <= Len(msgInflight)
       /\ fetchMessagesOk(i, ServerThread(msgInflight[i].lead, k))
  \/ \E i \in 1..MaxInflight : fetchMessagesFail(i)
  \/ \E i \in 1..MaxInflight : markReadSettled(i)
  \/ \E l \in EventLeads, d \in Directions : handleNewMessage(l, d)
  \/ \E l \in EventLeads : handleServerMessageNew(l)

----------------------------------------------------------------------------
(* fetchConversations: the diff of a response against the previous list *)

NoCount == -1      \* unreadCount absent (undefined / null)
Dirs    == {"inbound", "INBOUND", "outbound", "none"}

\* The (unreadCount, unread) pairs a conversation may carry: the count
\* absent with either flag, a zero count with the flag set, a positive count.
UnreadReps ==
  { [unreadCount |-> NoCount, unread |-> b] : b \in BOOLEAN } \cup
  { [unreadCount |-> 0, unread |-> TRUE],
    [unreadCount |-> MaxUnread, unread |-> FALSE] }

\* lastMessageTime is modelled by the value of new Date(..).getTime(), with 0
\* for an absent or empty one.
Conversation(id, dir, u, t) ==
  [id |-> id, lastMessageDirection |-> dir, unreadCount |-> u.unreadCount,
   unread |-> u.unread, lastMessageTime |-> t]

ConversationsOf(id, dirs) ==
  { Conversation(id, d, u, t) : d \in dirs, u \in UnreadReps, t \in 0..MaxTime }

\* Lists of at most n conversations with distinct identifiers.
ListsOf(n, dirs) ==
  {<<>>} \cup
  (IF n >= 1
     THEN UNION { { <<c>> : c \in ConversationsOf(i, dirs) } : i \in ConvIds }
     ELSE {}) \cup
  (IF n >= 2
     THEN UNION { { <<c, d>> : c \in ConversationsOf(i, dirs),
                               d \in ConversationsOf(j, dirs) } :
                  <<i, j>> \in { p \in ConvIds \X ConvIds : p[1] # p[2] } }
     ELSE {})

\* The responses of the server, and the previous snapshots; the diff never
\* reads the direction of a previous conversation.
Responses == ListsOf(MaxLen, Dirs)
Snapshots == ListsOf(MaxPrevLen, {"inbound"})

\* prevMap.get(id) after prevMap.set(c._id, c) for every c of prev in order:
\* the last conversation of prev with the identifier.
RECURSIVE prevMapGet(_, _)
prevMapGet(prev, id) ==
  IF prev = <<>> THEN Null
  ELSE IF prev[Len(prev)].id = id THEN Some(prev[Len(prev)])
  ELSE prevMapGet(SubSeq(prev, 1, Len(prev) - 1), id)

\* lines 166-168
isInboundAny(c) == TRUE
isInbound(c) ==
  c.lastMessageDirection = "inbound" \/ c.lastMessageDirection = "INBOUND"

\* lines 172-175: unreadCount ?? (unread ? 1 : 0)
unreadOf(c) ==
  IF c.unreadCount # NoCount THEN c.unreadCount
  ELSE IF c.unread THEN 1 ELSE 0

prevUnreadOf(p) == IF p # Null THEN unreadOf(p[1]) ELSE 0

\* lines 177-182
timeOf(c) == c.lastMessageTime
prevTimeOf(p) == IF p # Null THEN timeOf(p[1]) ELSE 0

\* lines 184-185
gotNewUnreadOrSame(current, p) ==
  unreadOf(current) >= prevUnreadOf(p) /\ timeOf(current) >= prevTimeOf(p)
gotNewUnread(current, p) ==
  unreadOf(current) > prevUnreadOf(p) /\ timeOf(current) >= prevTimeOf(p)

\* line 187
isBrandNewConv(current, p) == p = Null /\ unreadOf(current) > 0

\* lines 190-197: the candidate is replaced when there is none yet or when
\* current's time is truthy and later than the candidate's
replacesOnTie(current, newest) ==
  \/ newest = Null
  \/ (timeOf(current) # 0 /\ timeOf(current) >= timeOf(newest[1]))
replaces(current, newest) ==
  \/ newest = Null
  \/ (timeOf(current) # 0 /\ timeOf(current) > timeOf(newest[1]))

\* line 158: the diff runs for a poll over a non-empty previous list
diffRuns(poll, prev) == poll /\ Len(prev) > 0

\* lines 162-201: the loop over the response, from index i with candidate
\* newest
RECURSIVE diffLoop(_, _, _, _)
diffLoop(prev, lst, i, newest) ==
  IF i > Len(lst) THEN newest
  ELSE LET current == lst[i]
           p == prevMapGet(prev, current.id)
           next ==
             IF ~isInbound(current) THEN newest
             ELSE IF (gotNewUnread(current, p) \/ isBrandNewConv(current, p))
                     /\ replaces(current, newest)
                  THEN Some(current)
                  ELSE newest
       IN diffLoop(prev, lst, i + 1, next)

\* lines 155-202: newestInbound when the response is processed
computeNewestInbound(poll, prev, lst) ==
  IF diffRuns(poll, prev) THEN diffLoop(prev, lst, 1, Null) ELSE Null

\* fetchConversations lines 149-209: an ok response is processed.
fetchConversationsOk ==
  /\ diffPc = "fetching"
  /\ LET cand == computeNewestInbound(fromPoll, prevList, list) IN
     /\ newestInbound' = cand
     /\ IF fromPoll /\ cand # Null
          THEN bannerConv' = cand /\ bannerVisible' = TRUE
          ELSE UNCHANGED <<bannerConv, bannerVisible>>
  /\ diffPc' = "done"
  /\ lastOp' = Op("fetchConversationsOk", [poll |-> fromPoll])
  /\ UNCHANGED <<prevList, list, fromPoll>>

InitDiff ==
  /\ prevList \in Snapshots
  /\ list \in Responses
  /\ fromPoll \in BOOLEAN
  /\ newestInbound = Null
  /\ bannerConv = Null
  /\ bannerVisible = FALSE
  /\ diffPc = "fetching"

NextDiff == fetchConversationsOk

----------------------------------------------------------------------------
(* App.tsx navigation and the deep-link effect of the conversation views *)

\* Phone numbers as the strings the backend and the notifications carry.
PhoneDashed == <<"5","5","5","-","1","2","3","-","4","5","6","7">>
PhoneE164   == <<"+","1","5","5","5","1","2","3","4","5","6","7">>
PhoneShort  == <<"4","5","6","7">>
PhoneOther  == <<"5","5","5","9","9","9","0","0","0","0">>

NoId    == ""        \* a conversationId that is null, undefined or empty
NoPhone == <<>>      \* a fromPhone that is null, undefined or empty

ListedPhones == {PhoneDashed, PhoneShort, PhoneOther}
TargetPhones == {NoPhone, PhoneE164, PhoneShort, PhoneOther}
TargetIds    == {NoId, "a", "b", "zz"}
NotificationTypes == {"incoming_sms", "other"}
Screens == {"login", "home", "folders", "leads", "conversations", "numbers"}
Views   == {"folders", "conversations"}   \* the screens that list conversations

Listed(id, phone) == [id |-> id, phone |-> phone]

\* The lists of at most n conversations with distinct identifiers.
ListedOf(n) ==
  {<<>>} \cup
  (IF n >= 1
     THEN { <<Listed(i, p)>> : i \in ConvIds, p \in ListedPhones }
     ELSE {}) \cup
  (IF n >= 2
     THEN { <<Listed(ij[1], p), Listed(ij[2], q)>> :
              ij \in { x \in ConvIds \X ConvIds : x[1] # x[2] },
              p \in ListedPhones, q \in ListedPhones }
     ELSE {})

ListedLists == ListedOf(MaxListed)

\* normalizeDigits lines 48-50: (p || "").replace(/\D/g, "")
isDigit(c) == c \in {"0","1","2","3","4","5","6","7","8","9"}
normalizeDigits(p) == SelectSeq(p, isDigit)

\* String.prototype.slice(-n)
sliceLast(str, n) ==
  IF Len(str) <= n THEN str ELSE SubSeq(str, Len(str) - n + 1, Len(str))

\* String.prototype.endsWith
endsWith(str, suffix) ==
  /\ Len(suffix) <= Len(str)
  /\ SubSeq(str, Len(str) - Len(suffix) + 1, Len(str)) = suffix

Last10 == 10   \* targetDigits.slice(-10)

\* Array.prototype.find: of the indices whose element passes the test, the
\* first one; 0 if none passes
find(passing) ==
  IF passing = {} THEN 0
  ELSE CHOOSE i \in passing : \A j \in passing : i <= j

\* deep-link effect lines 419-421
findById(convs, id) ==
  IF id # NoId
    THEN find({ i \in 1..Len(convs) : convs[i].id = id })
    ELSE 0

\* deep-link effect lines 423-432
findByPhone(convs, phone) ==
  IF phone # NoPhone
    THEN LET targetLast10 == sliceLast(normalizeDigits(phone), Last10)
             ends(c) == endsWith(normalizeDigits(c.phone), targetLast10)
         IN IF targetLast10 # <<>>
              THEN find({ i \in 1..Len(convs) : ends(convs[i]) })
              ELSE 0
    ELSE 0

\* deep-link effect lines 417-432: the index of the target, 0 if none
resolveTargetPhoneFirst(convs, id, phone) ==
  IF findByPhone(convs, phone) # 0 THEN findByPhone(convs, phone)
  ELSE findById(convs, id)
resolveTarget(convs, id, phone) ==
  IF findById(convs, id) # 0 THEN findById(convs, id)
  ELSE findByPhone(convs, phone)

\* deep-link effect lines 410-415: the early returns
effectBailsIgnoringSelection(sel, id, phone, convs) ==
  \/ (id = NoId /\ phone = NoPhone)
  \/ Len(convs) = 0
effectBails(sel, id, phone, convs) ==
  \/ sel # NoConv
  \/ (id = NoId /\ phone = NoPhone)
  \/ Len(convs) = 0

\* deep-link effect lines 441-443 with App.tsx line 440: the target left
\* after a match
clearedTargetKeeps(target) == target
clearedTarget(target) == Null

\* navigateTo lines 294-296
navigationClearsNever(next) == FALSE
navigationClears(next) == next # "conversations"

\* App.tsx lines 427-439: the props ConversationsScreen gets; FoldersScreen
\* (lines 402-411) gets none.
initialConversationId ==
  IF screen = "conversations" /\ deepLinkTarget # Null
    THEN deepLinkTarget[1].conversationId ELSE NoId

initialPhone ==
  IF screen = "conversations" /\ deepLinkTarget # Null
    THEN deepLinkTarget[1].fromPhone ELSE NoPhone

\* The state of a view that is mounted anew.
FreshView ==
  /\ conversations' = <<>>
  /\ selectedConv' = NoConv

\* The view state when the App shows `next`: a view that stays mounted keeps
\* its state, a view that is mounted starts fresh.
ViewAfter(next) ==
  IF next = screen
    THEN UNCHANGED <<conversations, selectedConv>>
    ELSE FreshView

ThreadRest == <<effectConv, messages, loadingMessages, msgError, msgInflight,
                input, sendInflight>>

\* handleLogin lines 104-109, the login succeeded
handleLogin ==
  /\ token = Null
  /\ token' = Some("jwt")
  /\ screen' = "home"
  /\ lastOp' = Step("handleLogin", [targetBefore |-> deepLinkTarget])
  /\ UNCHANGED <<deepLinkTarget, conversations, selectedConv, effectPending>>

\* handleLogout lines 122-138 and the unmount of the screen shown
handleLogout ==
  /\ token # Null
  /\ token' = Null
  /\ screen' = "login"
  /\ deepLinkTarget' = Null
  /\ FreshView
  /\ effectPending' = FALSE
  /\ lastOp' = Step("handleLogout", [targetBefore |-> deepLinkTarget])

\* navigateTo lines 290-297
navigateTo(next) ==
  /\ token # Null
  /\ screen' = next
  /\ deepLinkTarget' =
       IF navigationClears(next) THEN Null ELSE deepLinkTarget
  /\ ViewAfter(next)
  /\ effectPending' = (next \in Views)
  /\ lastOp' = Step("navigateTo",
                    [next |-> next, targetBefore |-> deepLinkTarget])
  /\ UNCHANGED token

\* FoldersScreen onSelectFolder (App.tsx lines 405-409)
onSelectFolder ==
  /\ token # Null
  /\ screen = "folders"
  /\ screen' = "leads"
  /\ FreshView
  /\ effectPending' = FALSE
  /\ lastOp' = Step("onSelectFolder", [targetBefore |-> deepLinkTarget])
  /\ UNCHANGED <<token, deepLinkTarget>>

\* LeadsScreen onBack (App.tsx lines 420-422)
onBack ==
  /\ token # Null
  /\ screen = "leads"
  /\ screen' = "folders"
  /\ FreshView
  /\ effectPending' = TRUE
  /\ lastOp' = Step("onBack", [targetBefore |-> deepLinkTarget])
  /\ UNCHANGED <<token, deepLinkTarget>>

\* handleNotificationData lines 215-249 (registered while logged in)
handleNotificationData(type, fromPhone, conversationId) ==
  /\ token # Null
  /\ IF type # "incoming_sms"
       THEN UNCHANGED <<deepLinkTarget, screen, conversations, selectedConv,
                        effectPending>>
       ELSE /\ deepLinkTarget' =
                 Some([fromPhone |-> fromPhone,
                       conversationId |-> conversationId])
            /\ screen' = "conversations"
            /\ ViewAfter("conversations")
            /\ effectPending' = TRUE
  /\ lastOp' = Step("handleNotificationData",
                    [type |-> type, targetBefore |-> deepLinkTarget])
  /\ UNCHANGED token

\* fetchConversations lines 204 / 213: the list of the view is replaced
setConversations(l) ==
  /\ screen \in Views
  /\ l # conversations
  /\ conversations' = l
  /\ effectPending' = TRUE
  /\ lastOp' = Step("setConversations", [targetBefore |-> deepLinkTarget])
  /\ UNCHANGED <<token, screen, deepLinkTarget, selectedConv>>

\* The user opens a listed conversation (handleSelectConversation).
openListed(i) ==
  /\ screen \in Views
  /\ i \in 1..Len(conversations)
  /\ handleSelectConversation(conversations[i].id)
  /\ effectPending' = TRUE
  /\ UNCHANGED <<token, screen, deepLinkTarget, conversations>>

\* FoldersScreen: the user leaves the thread (handleBackFromThread).
leaveThread ==
  /\ screen = "folders"
  /\ handleBackFromThread
  /\ effectPending' = TRUE
  /\ UNCHANGED <<token, screen, deepLinkTarget, conversations>>

\* The deep-link effect, lines 408-451 (FoldersScreen lines 665-702): it runs
\* after a render in which one of its dependencies changed.
deepLinkEffect ==
  /\ screen \in Views
  /\ effectPending
  /\ LET id    == initialConversationId
         phone == initialPhone
         t     == IF effectBails(selectedConv, id, phone, conversations)
                    THEN 0
                    ELSE resolveTarget(conversations, id, phone)
     IN
     /\ IF t # 0
          THEN /\ selectedConv' = conversations[t].id
               /\ deepLinkTarget' = clearedTarget(deepLinkTarget)
               /\ effectPending' = TRUE
          ELSE /\ UNCHANGED <<selectedConv, deepLinkTarget>>
               /\ effectPending' = FALSE
     /\ lastOp' = Step("deepLinkEffect",
                       [id |-> id, phone |-> phone, picked |-> t,
                        selectedBefore |-> selectedConv,
                        targetBefore |-> deepLinkTarget])
  /\ UNCHANGED <<token, screen, conversations>>

InitLink ==
  /\ token = Null
  /\ screen = "login"
  /\ deepLinkTarget = Null
  /\ conversations = <<>>
  /\ effectPending = FALSE

NextLink ==
  \/ handleLogin
  \/ handleLogout
  \/ \E next \in Screens \ {"login", "leads"} : navigateTo(next)
  \/ onSelectFolder
  \/ onBack
  \/ \E type \in NotificationTypes, p \in TargetPhones, id \in TargetIds :
       handleNotificationData(type, p, id)
  \/ \E l \in ListedLists : setConversations(l)
  \/ \E i \in 1..MaxListed : openListed(i)
  \/ leaveThread
  \/ deepLinkEffect

----------------------------------------------------------------------------
(* ConversationsScreen: the polling interval, fetchConversations and the    *)
(* banner timeout over the lifetime of the view.  One instance of the view  *)
(* is followed at a time: the view is mounted again once the requests and   *)
(* the timeout of the previous instance have settled.                       *)

NoTimer  == 0                 \* bannerTimeoutRef.current = null
TimerIds == 1..MaxTimers

\* The responses of GET /api/mobile/message/conversations
Quiet(id)  == Conversation(id, "inbound",
                           [unreadCount |-> 0, unread |-> FALSE], 0)
Unread(id) == Conversation(id, "inbound",
                           [unreadCount |-> MaxUnread, unread |-> FALSE], 0)
SyncLists ==
  { <<>>, <<Quiet("a")>>, <<Unread("a")>>, <<Unread("a"), Unread("b")>> }

mounted == screen = "conversations"

\* setTimeout returns an identifier no pending timeout has; the one the ref
\* still holds is not handed out either.
freshTimer ==
  CHOOSE t \in TimerIds \ (bannerTimers \cup {bannerTimeoutRef}) :
    \A u \in TimerIds \ (bannerTimers \cup {bannerTimeoutRef}) : t <= u

\* clearBannerTimeout lines 91-96: the timeouts left pending
clearBannerTimeout == bannerTimers \ {bannerTimeoutRef}

\* showBannerForConversation lines 98-106; the state setters act only while
\* the view is mounted, the timeout is set either way.
showBannerForConversation(conv) ==
  /\ TimerIds \ (bannerTimers \cup {bannerTimeoutRef}) # {}
  /\ IF mounted
       THEN bannerConv' = Some(conv) /\ bannerVisible' = TRUE
       ELSE UNCHANGED <<bannerConv, bannerVisible>>
  /\ bannerTimers' = clearBannerTimeout \cup {freshTimer}
  /\ bannerTimeoutRef' = freshTimer

\* polling-effect cleanup line 283: clearInterval(intervalId)
clearedIntervalKeeps(active) == active
clearedInterval(active) == FALSE

\* The effects of a view that is mounted: lines 271-280 with the first
\* lines of fetchConversations (124-130); refs and state start fresh.
mountEffects ==
  /\ convInflight = <<>>
  /\ bannerTimers = {}
  /\ intervalActive' = TRUE
  /\ convInflight' =
       <<[fromPoll |-> FALSE, cause |-> "mount", retry |-> FALSE]>>
  /\ loadingConvs' = TRUE
  /\ convError' = FALSE
  /\ conversationsRef' = <<>>
  /\ bannerTimeoutRef' = NoTimer
  /\ UNCHANGED <<bannerTimers, bannerConv, bannerVisible>>

\* The cleanups of a view that is unmounted: lines 117-121 and 283; the
\* state of the view is gone, its refs stay with the calls in flight.
cleanupEffects ==
  /\ intervalActive' = clearedInterval(intervalActive)
  /\ bannerTimers' = clearBannerTimeout
  /\ bannerTimeoutRef' = NoTimer
  /\ bannerConv' = Null
  /\ bannerVisible' = FALSE
  /\ loadingConvs' = FALSE
  /\ convError' = FALSE
  /\ UNCHANGED <<conversationsRef, convInflight>>

\* What a change of the App's screen does to the view.
viewLifecycle ==
  IF screen # "conversations" /\ screen' = "conversations" THEN mountEffects
  ELSE IF screen = "conversations" /\ screen' # "conversations"
    THEN cleanupEffects
  ELSE UNCHANGED <<syncVars, bannerConv, bannerVisible>>

\* The effect of lines 76-78 is due: the list changed in a render whose
\* effects have not run yet.  It runs before a request dispatched after the
\* change can be answered; responses of requests already in flight may be
\* handled first.
refSyncDue == mounted /\ conversationsRef # conversations

\* useEffect(() => { conversationsRef.current = conversations }) lines 76-78
refSyncEffect ==
  /\ refSyncDue
  /\ conversationsRef' = conversations
  /\ lastOp' = Step("refSyncEffect", [list |-> conversations])
  /\ UNCHANGED <<convInflight, intervalActive, bannerTimers, bannerTimeoutRef,
                 loadingConvs, convError, bannerConv, bannerVisible, linkVars,
                 selectedConv>>

\* The interval callback lines 278-280 with fetchConversations lines 124-131
pollTick ==
  /\ intervalActive
  /\ ~refSyncDue
  /\ Len(convInflight) < MaxFetches
  /\ convInflight' =
       Append(convInflight, [fromPoll |-> TRUE, cause |-> "poll",
                             retry |-> mounted /\ convError])
  /\ convError' = IF mounted THEN FALSE ELSE convError
  /\ lastOp' = Step("pollTick", [mountedThen |-> mounted])
  /\ UNCHANGED <<conversationsRef, intervalActive, bannerTimers,
                 bannerTimeoutRef, loadingConvs, bannerConv, bannerVisible,
                 linkVars, selectedConv>>

\* fetchConversations lines 127-129: if (!fromPoll) setLoadingConvs(true)
startsLoadingNever(poll) == FALSE
startsLoading(poll) == ~poll

\* fetchConversations lines 124-131: the call up to its await
fetchConversationsStart(poll, cause) ==
  /\ Len(convInflight) < MaxFetches
  /\ convInflight' =
       Append(convInflight, [fromPoll |-> poll, cause |-> cause,
                             retry |-> mounted /\ convError])
  /\ loadingConvs' =
       IF startsLoading(poll) /\ mounted THEN TRUE ELSE loadingConvs
  /\ convError' = IF mounted THEN FALSE ELSE convError

\* The fetchConversations calls of one handler run
refreshes(modes, cause) ==
  IF modes = <<>>
    THEN UNCHANGED <<convInflight, loadingConvs, convError>>
    ELSE fetchConversationsStart(modes[1], cause)

\* handleSend lines 323-340, the part that concerns the conversation list:
\* the POST of a send settled.
sendSettled(ok) ==
  /\ mounted
  /\ ~refSyncDue
  /\ selectedConv # NoConv
  /\ refreshes(refreshAfterSend(ok), "send")
  /\ lastOp' = Step("sendSettled",
                    [ok |-> ok, refresh |-> refreshAfterSend(ok)])
  /\ UNCHANGED <<conversationsRef, intervalActive, bannerTimers,
                 bannerTimeoutRef, bannerConv, bannerVisible, linkVars,
                 selectedConv>>

\* handleNewMessage / handleServerMessageNew lines 352-393, the part that
\* concerns the conversation list: an event is delivered to the view.
realtimeEvent(kind, leadId) ==
  LET modes == IF kind = "newMessage" THEN refreshOnNewMessage(leadId)
               ELSE refreshOnServerMessage(leadId)
  IN
  /\ mounted
  /\ ~refSyncDue
  /\ refreshes(modes, "event")
  /\ lastOp' = Step("realtimeEvent",
                    [kind |-> kind, lead |-> leadId, refresh |-> modes])
  /\ UNCHANGED <<conversationsRef, intervalActive, bannerTimers,
                 bannerTimeoutRef, bannerConv, bannerVisible, linkVars,
                 selectedConv>>

\* fetchConversations line 204: the list stored after an ok response
storedListUnlessBanner(prev, resp, cand) ==
  IF cand # Null THEN prev ELSE resp
storedList(prev, resp, cand) == resp

\* fetchConversations lines 149-209 and 214-218: call i gets an ok response.
convFetchOk(i, resp) ==
  /\ i \in 1..Len(convInflight)
  /\ LET req  == convInflight[i]
         cand == computeNewestInbound(req.fromPoll, conversationsRef, resp)
         show == req.fromPoll /\ cand # Null
     IN
     /\ IF mounted
          THEN /\ conversations' = storedList(conversations, resp, cand)
               /\ loadingConvs' = IF req.fromPoll THEN loadingConvs ELSE FALSE
          ELSE UNCHANGED <<conversations, loadingConvs>>
     /\ IF show
          THEN showBannerForConversation(cand[1])
          ELSE UNCHANGED <<bannerConv, bannerVisible, bannerTimers,
                           bannerTimeoutRef>>
     /\ lastOp' = Step("convFetchOk",
                       [poll |-> req.fromPoll, shown |-> show,
                        mountedThen |-> mounted,
                        timersBefore |-> bannerTimers,
                        cause |-> req.cause, retry |-> req.retry,
                        index |-> i,
                        pending |-> Len(convInflight), resp |-> resp,
                        diffed |-> diffRuns(req.fromPoll, conversationsRef),
                        prevEmpty |-> conversationsRef = <<>>,
                        rose |-> computeNewestInbound(TRUE, conversationsRef,
                                                      resp) # Null])
  /\ convInflight' = RemoveAt(convInflight, i)
  /\ UNCHANGED <<conversationsRef, intervalActive, convError, token, screen,
                 deepLinkTarget, effectPending, selectedConv>>

\* fetchConversations line 213: setConversations([])
failedListKeeps(prev) == prev
failedList(prev) == <<>>

\* fetchConversations lines 143-147 and 210-218: call i rejects or its
\* response is not ok.
convFetchFail(i) ==
  /\ i \in 1..Len(convInflight)
  /\ IF mounted
       THEN /\ convError' = TRUE
            /\ conversations' = failedList(conversations)
            /\ loadingConvs' =
                 IF convInflight[i].fromPoll THEN loadingConvs ELSE FALSE
       ELSE UNCHANGED <<convError, conversations, loadingConvs>>
  /\ convInflight' = RemoveAt(convInflight, i)
  /\ lastOp' = Step("convFetchFail",
                    [mountedThen |-> mounted,
                     poll |-> convInflight[i].fromPoll])
  /\ UNCHANGED <<conversationsRef, intervalActive, bannerTimers,
                 bannerTimeoutRef, bannerConv, bannerVisible, token, screen,
                 deepLinkTarget, effectPending, selectedConv>>

\* The timeout callback lines 103-105
bannerTimerFires(t) ==
  /\ t \in bannerTimers
  /\ bannerTimers' = bannerTimers \ {t}
  /\ bannerVisible' = IF mounted THEN FALSE ELSE bannerVisible
  /\ lastOp' = Step("bannerTimerFires",
                    [timer |-> t, refThen |-> bannerTimeoutRef,
                     mountedThen |-> mounted])
  /\ UNCHANGED <<conversationsRef, convInflight, intervalActive,
                 bannerTimeoutRef, loadingConvs, convError, bannerConv,
                 linkVars, selectedConv>>

\* handleBannerPress lines 111-112:
\* conversations.find((c) => c._id === bannerConv._id) || bannerConv
bannerMatchBanner(convs, banner) == banner
bannerMatch(convs, banner) ==
  LET i == find({k \in 1..Len(convs) : convs[k].id = banner.id})
  IN IF i = 0 THEN banner ELSE convs[i]

\* handleBannerPress lines 108-115
handleBannerPress ==
  /\ mounted
  /\ bannerVisible
  /\ bannerConv # Null
  /\ selectedConv' = bannerMatch(conversations, bannerConv[1]).id
  /\ bannerVisible' = FALSE
  /\ lastOp' = Step("handleBannerPress",
                    [timersBefore |-> bannerTimers,
                     match |-> bannerMatch(conversations, bannerConv[1])])
  /\ UNCHANGED <<syncVars, bannerConv, linkVars>>

InitSync ==
  /\ conversationsRef = <<>>
  /\ convInflight = <<>>
  /\ intervalActive = FALSE
  /\ bannerTimers = {}
  /\ bannerTimeoutRef = NoTimer
  /\ loadingConvs = FALSE
  /\ convError = FALSE

NextSync ==
  \/ handleLogin /\ viewLifecycle
  \/ handleLogout /\ viewLifecycle
  \/ \E next \in {"home", "conversations"} : navigateTo(next) /\ viewLifecycle
  \/ pollTick
  \/ refSyncEffect
  \/ \E i \in 1..MaxFetches, resp \in SyncLists : convFetchOk(i, resp)
  \/ \E i \in 1..MaxFetches : convFetchFail(i)
  \/ \E t \in TimerIds : bannerTimerFires(t)
  \/ handleBannerPress
  \/ \E ok \in BOOLEAN : sendSettled(ok)
  \/ \E kind \in {"newMessage", "message:new"}, l \in EventLeads :
       realtimeEvent(kind, l)

----------------------------------------------------------------------------
(* lib/voiceClient.ts: voice registration and outbound calls *)

AuthTokens   == {"jwt", "jwt2"}
AuthInputs   == {Null} \cup {Some(t) : t \in AuthTokens}
Destinations == { <<>>, <<"+", "1">> }

\* GET /api/twilio/voice/token: the access token the backend grants belongs
\* to the user of the bearer token the request carried (lines 41-45, 58).
grantedToken(bearer) == [under |-> bearer]

\* The record of a step of the voice client: the native and network calls
\* it invoked (a subset of {"fetch", "register", "connect"}).
VoiceStep(name, did, fields) == Step(name, [did |-> did] @@ fields)

\* export function setMobileAuthToken lines 28-30
setMobileAuthToken(t) ==
  /\ mobileAuthToken' = t
  /\ lastOp' = VoiceStep("setMobileAuthToken", {}, [arg |-> t])
  /\ UNCHANGED <<registeredToken, registering, calls>>

\* ensureVoiceRegistered lines 74-75: the early returns
skipsRegistration(busy, held) == busy \/ held # Null

\* startOutboundCallFromMobile lines 97-99: if (!to) throw
missingDestination(to) == to = <<>>

\* export async function startOutboundCallFromMobile, up to its first
\* suspension: either ensureVoiceRegistered returns at once and tv.connect
\* is invoked (lines 102-113), or fetchVoiceToken is awaited (line 79).
startOutboundCallFromMobile(to) ==
  /\ Len(calls) < MaxCalls
  /\ IF missingDestination(to)
       THEN /\ lastOp' = VoiceStep("startOutboundCallFromMobile", {},
                                   [to |-> to, thrown |-> TRUE])
            /\ UNCHANGED <<registering, calls>>
       ELSE IF skipsRegistration(registering, registeredToken)
         THEN /\ calls' = Append(calls, [pc |-> "connect", to |-> to,
                                         bearer |-> Null, voice |-> Null])
              /\ lastOp' = VoiceStep("startOutboundCallFromMobile",
                                     {"connect"},
                                     [to |-> to, thrown |-> FALSE])
              /\ UNCHANGED registering
         ELSE /\ registering' = TRUE
              /\ calls' = Append(calls, [pc |-> "token", to |-> to,
                                         bearer |-> mobileAuthToken,
                                         voice |-> Null])
              /\ lastOp' = VoiceStep("startOutboundCallFromMobile",
                                     {"fetch"},
                                     [to |-> to, thrown |-> FALSE])
  /\ UNCHANGED <<mobileAuthToken, registeredToken>>

\* fetchVoiceToken lines 47-58 settles for call i.  The backend grants a
\* token only to a request that carries a bearer token.  On a grant
\* tv.register(token) is invoked (line 80); otherwise the call throws and
\* the finally of lines 83-85 runs.
voiceTokenSettled(i, ok) ==
  /\ i \in 1..Len(calls)
  /\ calls[i].pc = "token"
  /\ ok => calls[i].bearer # Null
  /\ IF ok
       THEN /\ calls' = [calls EXCEPT ![i].pc = "register",
                                      ![i].voice =
                                         Some(grantedToken(calls[i].bearer))]
            /\ lastOp' = VoiceStep("voiceTokenSettled", {"register"},
                                   [ok |-> TRUE])
            /\ UNCHANGED registering
       ELSE /\ calls' = RemoveAt(calls, i)
            /\ registering' = FALSE
            /\ lastOp' = VoiceStep("voiceTokenSettled", {}, [ok |-> FALSE])
  /\ UNCHANGED <<mobileAuthToken, registeredToken>>

\* tv.register(token) settles for call i (lines 80-85); on success
\* ensureVoiceRegistered returns and tv.connect is invoked (line 109).
registerSettled(i, ok) ==
  /\ i \in 1..Len(calls)
  /\ calls[i].pc = "register"
  /\ registering' = FALSE
  /\ IF ok
       THEN /\ registeredToken' = calls[i].voice
            /\ calls' = [calls EXCEPT ![i].pc = "connect"]
            /\ lastOp' = VoiceStep("registerSettled", {"connect"},
                                   [ok |-> TRUE])
       ELSE /\ calls' = RemoveAt(calls, i)
            /\ lastOp' = VoiceStep("registerSettled", {}, [ok |-> FALSE])
            /\ UNCHANGED registeredToken
  /\ UNCHANGED mobileAuthToken

\* tv.connect settles for call i (lines 109-113 and the catch below them)
connectSettled(i, ok) ==
  /\ i \in 1..Len(calls)
  /\ calls[i].pc = "connect"
  /\ calls' = RemoveAt(calls, i)
  /\ lastOp' = VoiceStep("connectSettled", {}, [ok |-> ok])
  /\ UNCHANGED <<mobileAuthToken, registeredToken, registering>>

InitVoice ==
  /\ mobileAuthToken = Null
  /\ registeredToken = Null
  /\ registering = FALSE
  /\ calls = <<>>

NextVoice ==
  \/ \E t \in AuthInputs : setMobileAuthToken(t)
  \/ \E to \in Destinations : startOutboundCallFromMobile(to)
  \/ \E i \in 1..MaxCalls, ok \in BOOLEAN : voiceTokenSettled(i, ok)
  \/ \E i \in 1..MaxCalls, ok \in BOOLEAN : registerSettled(i, ok)
  \/ \E i \in 1..MaxCalls, ok \in BOOLEAN : connectSettled(i, ok)

----------------------------------------------------------------------------
(* App.tsx with lib/socketClient.ts and the wiring effect of the           *)
(* conversations view: a session from login to logout.  A cleanup that is  *)
(* due runs before anything else does.                                     *)

\* The view went away and the cleanup of its wiring effect has not run yet.
cleanupDue == viewWired /\ screen # "conversations"

\* handleLogin lines 104-113, the login succeeded for the user with email e
login(e) ==
  /\ token = Null
  /\ ~cleanupDue
  /\ connectAndJoin(toLowerCase(e))
  /\ token' = Some("jwt")
  /\ mobileAuthToken' = Some("jwt")
  /\ user' = Some(e)
  /\ screen' = "home"
  /\ UNCHANGED deepLinkTarget

\* ConversationsScreen is mounted (App.tsx lines 426-442): its wiring
\* effect lines 344-396 runs with userEmail = user.email.
mountConversations ==
  IF normalize(user[1]) # <<>>
    THEN viewEffect(user[1])
    ELSE /\ lastOp' = Op("viewEffect", [arg |-> user[1], ret |-> NoSocket])
         /\ UNCHANGED sockVars

\* navigateTo("conversations") lines 290-297 and the mount of the view
openConversations ==
  /\ token # Null
  /\ screen # "conversations"
  /\ ~cleanupDue
  /\ screen' = "conversations"
  /\ deepLinkTarget' =
       IF navigationClears("conversations") THEN Null ELSE deepLinkTarget
  /\ mountConversations
  /\ UNCHANGED <<token, user, mobileAuthToken>>

\* handleNotificationData lines 215-249 for an incoming_sms notification,
\* and the mount of the view when another screen was shown
openNotification(conversationId) ==
  /\ token # Null
  /\ ~cleanupDue
  /\ deepLinkTarget' =
       Some([fromPhone |-> NoPhone, conversationId |-> conversationId])
  /\ screen' = "conversations"
  /\ IF screen # "conversations"
       THEN mountConversations
       ELSE /\ lastOp' = Op("handleNotificationData", [ret |-> NoSocket])
            /\ UNCHANGED sockVars
  /\ UNCHANGED <<token, user, mobileAuthToken>>

\* navigateTo("home") lines 290-297 while the conversations view is shown
leaveConversations ==
  /\ token # Null
  /\ screen = "conversations"
  /\ screen' = "home"
  /\ deepLinkTarget' = IF navigationClears("home") THEN Null ELSE deepLinkTarget
  /\ lastOp' = Op("navigateTo", [ret |-> NoSocket])
  /\ UNCHANGED <<sockVars, token, user, mobileAuthToken>>

\* handleLogout lines 122-138
logout ==
  /\ token # Null
  /\ ~cleanupDue
  /\ disconnectSocket
  /\ mobileAuthToken' = Null
  /\ token' = Null
  /\ user' = Null
  /\ screen' = "login"
  /\ deepLinkTarget' = Null

\* The view is unmounted: the cleanup lines 398-403 runs
teardown ==
  /\ cleanupDue
  /\ viewCleanup
  /\ UNCHANGED <<token, user, mobileAuthToken, screen, deepLinkTarget>>

\* The transport's events while the session goes on
transport ==
  /\ ~cleanupDue
  /\ \/ \E s \in SocketIds : connectEvent(s)
     \/ \E s \in SocketIds : transportDrop(s)
  /\ UNCHANGED <<token, user, mobileAuthToken, screen, deepLinkTarget>>

InitSession ==
  /\ InitSock
  /\ InitLink
  /\ user = Null
  /\ mobileAuthToken = Null

NextSession ==
  \/ \E e \in EmailInputs : login(e)
  \/ openConversations
  \/ \E c \in TargetIds : openNotification(c)
  \/ leaveConversations
  \/ logout
  \/ teardown
  \/ transport

----------------------------------------------------------------------------
(* Specifications *)

InitOp == lastOp = [op |-> "init", after |-> "init"]

\* The variables of the parts a specification does not run stay at their
\* initial values.
IdleSock   == InitSock
IdleThread == InitThread
IdleDiff ==
  /\ prevList = <<>>
  /\ list = <<>>
  /\ fromPoll = FALSE
  /\ newestInbound = Null
  /\ bannerConv = Null
  /\ bannerVisible = FALSE
  /\ diffPc = "done"

IdleLink   == InitLink
IdleSync   == InitSync
IdleVoice  == InitVoice /\ user = Null /\ echoes = <<>>

SocketInit ==
  InitSock /\ IdleThread /\ IdleDiff /\ IdleLink /\ IdleSync /\ IdleVoice
  /\ InitOp
SocketNext ==
  NextSock
  /\ UNCHANGED <<threadVars, diffVars, linkVars, syncVars, voiceVars, user,
               echoes>>
SpecSocket == SocketInit /\ [][SocketNext]_vars

ThreadInit ==
  InitThread /\ IdleSock /\ IdleDiff /\ IdleLink /\ IdleSync /\ IdleVoice
  /\ InitOp
ThreadNext ==
  NextThread
  /\ UNCHANGED <<sockVars, diffVars, linkVars, syncVars, voiceVars, user,
               echoes>>
SpecThread == ThreadInit /\ [][ThreadNext]_vars

RealtimeNext ==
  NextRealtime
  /\ UNCHANGED <<sockVars, diffVars, linkVars, syncVars, voiceVars, user,
               echoes>>
SpecRealtime == ThreadInit /\ [][RealtimeNext]_vars

DiffInit ==
  InitDiff /\ IdleSock /\ IdleThread /\ IdleLink /\ IdleSync /\ IdleVoice
  /\ InitOp
DiffNext ==
  NextDiff
  /\ UNCHANGED <<sockVars, threadVars, linkVars, syncVars, voiceVars, user,
               echoes>>
SpecDiff == DiffInit /\ [][DiffNext]_vars

LinkInit ==
  InitLink /\ IdleSock /\ IdleThread /\ IdleDiff /\ IdleSync /\ IdleVoice
  /\ InitOp
LinkNext ==
  NextLink
  /\ UNCHANGED <<sockVars, diffVars, ThreadRest, syncVars, voiceVars, user,
               echoes>>
SpecLink == LinkInit /\ [][LinkNext]_vars

DiffRest == <<prevList, list, fromPoll, newestInbound, diffPc>>

SyncInit ==
  InitSync /\ InitLink /\ IdleSock /\ IdleThread /\ IdleDiff /\ IdleVoice
  /\ InitOp
SyncNext ==
  NextSync /\ UNCHANGED <<sockVars, DiffRest, ThreadRest, voiceVars, user,
               echoes>>
SpecSync == SyncInit /\ [][SyncNext]_vars

VoiceInit ==
  IdleVoice /\ IdleSock /\ IdleThread /\ IdleDiff /\ IdleLink /\ IdleSync
  /\ InitOp
VoiceNext ==
  NextVoice
  /\ UNCHANGED <<sockVars, threadVars, diffVars, linkVars, syncVars, user,
                 echoes>>
SpecVoice == VoiceInit /\ [][VoiceNext]_vars

\* The timeouts of the view are served: one that is set and not cleared
\* fires.
TimersFire ==
  \A t \in TimerIds :
    WF_vars(bannerTimerFires(t)
            /\ UNCHANGED <<sockVars, DiffRest, ThreadRest, voiceVars, user,
               echoes>>)
SpecBanner == SpecSync /\ TimersFire

SessionRest == <<conversations, effectPending, registeredToken, registering,
                 calls, echoes>>

SessionInit ==
  InitSession /\ IdleVoice /\ IdleThread /\ IdleDiff /\ IdleSync /\ InitOp
SessionNext ==
  NextSession /\ UNCHANGED <<threadVars, diffVars, syncVars, SessionRest>>
SpecSession == SessionInit /\ [][SessionNext]_vars

EchoNext ==
  NextEcho
  /\ UNCHANGED <<sockVars, diffVars, linkVars, syncVars, voiceVars, user>>
SpecEcho == ThreadInit /\ [][EchoNext]_vars

Init == SocketInit
Next == SocketNext
Spec == SpecSocket

----------------------------------------------------------------------------
(* Properties of the socket registry (SpecSocket) *)

JoinCalls == {"connectAndJoin", "viewEffect"}
GetCalls  == {"getSocket", "connectAndJoin", "viewEffect", "viewCleanup"}
InboundDirs == {"inbound", "INBOUND"}

Last(q) == q[Len(q)]

\* The socket the latest step acted on.
OpSocket ==
  IF "sock" \in DOMAIN lastOp THEN lastOp.sock
  ELSE IF "ret" \in DOMAIN lastOp THEN lastOp.ret ELSE NoSocket

\* C1: after any sequence of getSocket, connectAndJoin and disconnectSocket
\* calls the registry holds at most one socket object: every socket built so
\* far is the registered one or has been disconnected with its listeners
\* removed; a getSocket / connectAndJoin call made while a socket is
\* registered returns that socket and builds no other, so connectAndJoin
\* twice in a row with the same identity never creates a second connection.
C1_SingleSocket ==
  /\ gsocket \in 0..created
  /\ \A s \in 1..created :
       s = gsocket \/ (connState[s] = "closed" /\ listeners[s] = {})
  /\ (lastOp.op \in GetCalls /\ lastOp.prevSock # NoSocket) =>
       /\ lastOp.ret = lastOp.prevSock
       /\ ~lastOp.made
       /\ gsocket = lastOp.ret

\* connectAndJoin was called twice in a row with the same identity and only
\* one socket was ever built.
C1_Witness ==
  /\ lastOp.op = "connectAndJoin"
  /\ lastOp.after = "connectAndJoin"
  /\ lastOp.prevEmail # Null
  /\ lastOp.prevEmail = gemail
  /\ lastOp.ret = lastOp.afterRet
  /\ created = 1

\* C7: disconnectSocket followed by connectAndJoin(identity) yields a socket
\* distinct from the one disconnected (and never one that was disconnected
\* before), with the connection initiated and a join for the identity
\* emitted; and an event that reaches a disconnected socket runs none of the
\* listeners that were bound to it.
C7_FreshAfterDisconnect ==
  /\ lastOp.op \in JoinCalls =>
       /\ lastOp.stateBefore # "closed"
       /\ lastOp.ret = gsocket
       /\ connState[lastOp.ret] \in {"connecting", "connected"}
       /\ (lastOp.stateBefore # "connected") => connState[lastOp.ret] = "connecting"
       /\ toLowerCase(trim(lastOp.arg)) # <<>> =>
            /\ Len(joins[lastOp.ret]) = lastOp.joinsBefore + 1
            /\ Last(joins[lastOp.ret]) = toLowerCase(trim(lastOp.arg))
  /\ (lastOp.op \in JoinCalls /\ lastOp.after = "disconnectSocket") =>
       /\ lastOp.ret # lastOp.afterRet
       /\ lastOp.made
  /\ (lastOp.op = "event" /\ lastOp.closed) => lastOp.ran = {}

\* connectAndJoin with an identity ran right after a disconnectSocket that
\* closed a socket the view had wired its handlers to.
C7_Witness ==
  /\ lastOp.op = "connectAndJoin"
  /\ lastOp.after = "disconnectSocket"
  /\ lastOp.afterRet # NoSocket
  /\ connState[lastOp.afterRet] = "closed"
  /\ viewWired
  /\ gemail # Null
  /\ connState[gsocket] = "connecting"

\* C8: for one established connection at most one join carrying a given
\* identity is sent: no identity occurs twice among the joins emitted for
\* one connection establishment of a socket.
C8_NoDuplicateJoin ==
  \A s \in 1..created :
    \A i, j \in 1..Len(joins[s]) : i # j => joins[s][i] # joins[s][j]

\* C9: every connect event on the registered socket while an identity is
\* stored emits one join carrying the stored lowercased identity; with no
\* identity stored it emits none.
C9_JoinOnConnect ==
  (lastOp.op = "event" /\ lastOp.event = "connect" /\ lastOp.sock = gsocket) =>
    /\ "connect" \in lastOp.ran
    /\ IF gemail # Null
         THEN /\ Len(joins[gsocket]) = lastOp.joinsBefore + 1
              /\ Last(joins[gsocket]) = toLowerCase(gemail[1])
         ELSE Len(joins[gsocket]) = lastOp.joinsBefore

\* The transport reconnected the registered socket after a drop and the
\* connect handler joined again.
C9_Witness ==
  /\ lastOp.op = "event"
  /\ lastOp.event = "connect"
  /\ lastOp.after = "drop"
  /\ lastOp.sock = gsocket
  /\ gemail # Null
  /\ joins[gsocket] = <<gemail[1]>>

\* C10: after connectAndJoin(B) on a registered socket (no disconnect since
\* the call before) the stored identity is the trimmed lowercased B (none
\* when that is empty), the socket is the same one, and every join emitted
\* on the registered socket carries the identity stored at that moment.
C10_IdentityUpdated ==
  /\ (lastOp.op \in JoinCalls /\ lastOp.prevSock # NoSocket) =>
       /\ gsocket = lastOp.prevSock
       /\ ~lastOp.made
       /\ IF toLowerCase(trim(lastOp.arg)) # <<>>
            THEN gemail = Some(toLowerCase(trim(lastOp.arg)))
            ELSE gemail = Null
  /\ ("joinsBefore" \in DOMAIN lastOp /\ OpSocket = gsocket
        /\ Len(joins[gsocket]) > lastOp.joinsBefore) =>
       (gemail # Null /\ Last(joins[gsocket]) = gemail[1])

\* connectAndJoin(" A") was followed by connectAndJoin("B ") on the same
\* socket and the join of the second call carries "b".
C10_Witness ==
  /\ lastOp.op = "connectAndJoin"
  /\ lastOp.after = "connectAndJoin"
  /\ lastOp.arg = <<"B", " ">>
  /\ lastOp.prevEmail = Some(<<"a">>)
  /\ gemail = Some(<<"b">>)
  /\ lastOp.ret = lastOp.prevSock
  /\ joins[gsocket] = <<(<<"a">>), (<<"b">>)>>

\* C11: disconnectSocket called when a socket is registered removes all of
\* that socket's listeners, disconnects it, and leaves the registry with no
\* socket and no stored identity.
C11_DisconnectClears ==
  (lastOp.op = "disconnectSocket" /\ lastOp.prevSock # NoSocket) =>
    /\ lastOp.ret = lastOp.prevSock
    /\ listeners[lastOp.ret] = {}
    /\ connState[lastOp.ret] = "closed"
    /\ gsocket = NoSocket
    /\ gemail = Null

\* disconnectSocket ran on a connected socket that had the client's and the
\* view's listeners bound and an identity stored.
C11_Witness ==
  /\ lastOp.op = "disconnectSocket"
  /\ lastOp.prevSock # NoSocket
  /\ lastOp.stateBefore = "connected"
  /\ lastOp.listenersBefore = ClientEvents \cup ViewEvents
  /\ lastOp.prevEmail # Null
  /\ gsocket = NoSocket

\* C12: disconnectSocket called when no socket is registered is a no-op: it
\* constructs no socket client, disconnects no socket and leaves the
\* registry empty.
C12_DisconnectNoop ==
  (lastOp.op = "disconnectSocket" /\ lastOp.prevSock = NoSocket) =>
    /\ ~lastOp.made
    /\ \A s \in SocketIds : connState[s] = "closed" => s # lastOp.ret
    /\ gsocket = NoSocket

----------------------------------------------------------------------------
(* Properties of the thread loader (SpecThread) *)

\* C2: whenever a fetchMessages(A) response is applied to the message list,
\* A is the currently selected conversation.
C2_LateResponseDiscarded ==
  lastOp.op = "fetchMessagesOk" => lastOp.lead = selectedConv

\* C13: handleSend with input that is empty or only whitespace, or with no
\* conversation selected, issues no request and leaves the message list, the
\* input text and the error state unchanged.
C13_SendRejected ==
  [][ ( /\ lastOp'.op = "handleSend"
        /\ (selectedConv = NoConv \/ \A k \in 1..Len(input) : input[k] = " ") )
      => ( /\ ~lastOp'.sent
           /\ UNCHANGED <<sendInflight, msgInflight, messages, input, msgError,
                          selectedConv>> ) ]_vars

\* handleSend ran on a selected conversation with a whitespace-only input
\* and sent nothing.
C13_Witness ==
  /\ lastOp.op = "handleSend"
  /\ ~lastOp.sent
  /\ selectedConv # NoConv
  /\ input = <<" ">>
  /\ sendInflight = <<>>

----------------------------------------------------------------------------
(* Properties of the conversation diff (SpecDiff) *)

\* The previous unread value of the conversation with this identifier, 0
\* when the snapshot has none.
PreviousUnread(id) == prevUnreadOf(prevMapGet(prevList, id))

\* The conversations of the response that qualify as newly notified in the
\* words of the specification.
NewlyNotified ==
  { i \in 1..Len(list) :
      LET c == list[i]
          p == prevMapGet(prevList, c.id)
      IN /\ c.lastMessageDirection \in InboundDirs
         /\ \/ /\ p # Null
               /\ unreadOf(c) > unreadOf(p[1])
               /\ c.lastMessageTime >= p[1].lastMessageTime
            \/ /\ p = Null
               /\ unreadOf(c) > 0 }

\* C3: in a background poll whose previous snapshot is empty, the one
\* conversation of the response that is inbound with an unread value above
\* zero is the banner candidate.
C3_BrandNewOnEmptySnapshot ==
  ( /\ diffPc = "done"
    /\ fromPoll
    /\ prevList = <<>>
    /\ Len(list) = 1
    /\ list[1].lastMessageDirection \in InboundDirs
    /\ unreadOf(list[1]) > 0 ) =>
      newestInbound = Some(list[1])

\* C4: in a background poll in which no inbound conversation's unread value
\* is higher than its value in the previous snapshot (0 when absent), no
\* banner candidate is selected and no banner is shown.
C4_NoIncreaseNoBanner ==
  ( /\ diffPc = "done"
    /\ fromPoll
    /\ \A i \in 1..Len(list) :
         list[i].lastMessageDirection \in InboundDirs =>
           unreadOf(list[i]) <= PreviousUnread(list[i].id) ) =>
      /\ newestInbound = Null
      /\ bannerConv = Null
      /\ ~bannerVisible

\* A poll re-confirmed a positive inbound unread value of a conversation of
\* the previous snapshot and selected nothing.
C4_Witness ==
  /\ diffPc = "done"
  /\ fromPoll
  /\ prevList # <<>>
  /\ newestInbound = Null
  /\ \A i \in 1..Len(list) :
       list[i].lastMessageDirection \in InboundDirs =>
         unreadOf(list[i]) <= PreviousUnread(list[i].id)
  /\ \E i \in 1..Len(list) :
       /\ list[i].lastMessageDirection = "inbound"
       /\ prevMapGet(prevList, list[i].id) # Null
       /\ unreadOf(list[i]) = MaxUnread
       /\ PreviousUnread(list[i].id) = MaxUnread
       /\ list[i].lastMessageTime > prevTimeOf(prevMapGet(prevList, list[i].id))

\* C5: in a background poll the banner candidate is one of the inbound
\* conversations that qualify as newly notified ((a) unread value above the
\* previous one and timestamp not older, or (b) no previous counterpart and
\* unread value above zero), and there is a candidate whenever one qualifies.
C5_QualifiesExactly ==
  (diffPc = "done" /\ fromPoll) =>
    /\ newestInbound # Null =>
         \E i \in NewlyNotified : newestInbound = Some(list[i])
    /\ NewlyNotified # {} => newestInbound # Null

\* C6: a conversation whose last message direction is outbound or
\* unspecified is never the banner candidate nor the banner's conversation.
C6_OutboundNeverSelected ==
  diffPc = "done" =>
    /\ newestInbound # Null =>
         newestInbound[1].lastMessageDirection \in InboundDirs
    /\ bannerConv # Null =>
         bannerConv[1].lastMessageDirection \in InboundDirs

\* A poll saw an outbound conversation with an increased unread value, next
\* to no other conversation, and selected nothing.
C6_Witness ==
  /\ diffPc = "done"
  /\ fromPoll
  /\ prevList # <<>>
  /\ newestInbound = Null
  /\ \E i \in 1..Len(list) :
       /\ list[i].lastMessageDirection = "outbound"
       /\ prevMapGet(prevList, list[i].id) # Null
       /\ unreadOf(list[i]) > PreviousUnread(list[i].id)
       /\ list[i].lastMessageTime >= prevTimeOf(prevMapGet(prevList, list[i].id))

----------------------------------------------------------------------------
(* Claims about the deep-link target (SpecLink) *)

\* The step just taken was the deep-link effect and it selected a conversation.
EffectPicked == lastOp.op = "deepLinkEffect" /\ lastOp.picked # 0

\* The trailing ten digits of a phone number.
Trailing10(p) == sliceLast(normalizeDigits(p), Last10)

C15_IdentifierFirst ==
  (lastOp.op = "deepLinkEffect" /\ lastOp.selectedBefore = NoConv) =>
    /\ (lastOp.id # NoId
        /\ \E i \in 1..Len(conversations) : conversations[i].id = lastOp.id)
         => (lastOp.picked # 0 /\ selectedConv = lastOp.id)
    /\ (lastOp.picked # 0 /\ conversations[lastOp.picked].id # lastOp.id)
         => \A i \in 1..Len(conversations) : conversations[i].id # lastOp.id

\* The identifier names the second conversation while the phone number
\* matches the first, and the effect selected the second.
C15_Witness ==
  /\ EffectPicked
  /\ lastOp.picked = 2
  /\ conversations[2].id = lastOp.id
  /\ lastOp.phone # NoPhone
  /\ Trailing10(conversations[1].phone) = Trailing10(lastOp.phone)
  /\ selectedConv = conversations[2].id

\* C16: with no identifier match, the effect selects by phone exactly the
\* first conversation whose trailing 10 digits equal the trailing 10 digits
\* of the target phone, and nothing when there is none.
C16_Trailing10Equal ==
  (/\ lastOp.op = "deepLinkEffect"
   /\ lastOp.selectedBefore = NoConv
   /\ lastOp.phone # NoPhone
   /\ findById(conversations, lastOp.id) = 0)
    => lastOp.picked =
         find({ i \in 1..Len(conversations) :
                  Trailing10(conversations[i].phone)
                    = Trailing10(lastOp.phone) })

\* C17: the deep-link effect changes the selection only while no conversation
\* is selected and a target with an identifier or a phone is pending.
C17_OnlyWhenUnselectedAndPending ==
  [][ (lastOp'.op = "deepLinkEffect" /\ selectedConv' # selectedConv)
        => /\ selectedConv = NoConv
           /\ deepLinkTarget # Null
           /\ (initialConversationId # NoId \/ initialPhone # NoPhone) ]_vars

\* The effect ran while the user had a conversation open and the pending
\* target named another listed conversation; the selection stayed.
C17_Witness ==
  /\ lastOp.op = "deepLinkEffect"
  /\ lastOp.selectedBefore # NoConv
  /\ lastOp.targetBefore # Null
  /\ resolveTarget(conversations, lastOp.id, lastOp.phone) # 0
  /\ conversations[resolveTarget(conversations, lastOp.id, lastOp.phone)].id
       # lastOp.selectedBefore
  /\ lastOp.picked = 0
  /\ selectedConv = lastOp.selectedBefore

\* C18: after navigateTo to a screen other than conversations, and after
\* logout, the target is null; no target is pending on any screen but
\* conversations, so a later visit finds nothing to select.
C18_AbandonedOnNavigation ==
  /\ (lastOp.op = "navigateTo" /\ lastOp.next # "conversations")
       => deepLinkTarget = Null
  /\ lastOp.op = "handleLogout" => deepLinkTarget = Null
  /\ screen # "conversations" => deepLinkTarget = Null
  /\ (lastOp.op = "deepLinkEffect" /\ lastOp.targetBefore = Null)
       => (lastOp.picked = 0 /\ selectedConv = lastOp.selectedBefore)

\* The user navigated away from the conversations screen while a target was
\* pending.
C18_Witness ==
  /\ lastOp.op = "navigateTo"
  /\ lastOp.next # "conversations"
  /\ lastOp.targetBefore # Null
  /\ deepLinkTarget = Null

----------------------------------------------------------------------------
(* Claims about the timers of the conversations view (SpecSync) *)

\* C19: at every moment at most one banner timeout is pending; a timeout that
\* fires is the one the latest banner set, never the one of a banner that was
\* superseded; and while the view is torn down no banner timeout is pending.
C19_OneBannerTimer ==
  /\ Cardinality(bannerTimers) <= 1
  /\ lastOp.op = "bannerTimerFires" => lastOp.timer = lastOp.refThen
  /\ ~mounted => bannerTimers = {}

\* C20: the polling interval is set only while the conversations view is
\* mounted with a token, and every tick of it dispatches its fetch from the
\* mounted view; after a teardown or a logout no tick fires.
C20_NoPollAfterTeardown ==
  /\ intervalActive => (mounted /\ token # Null)
  /\ lastOp.op = "pollTick" => (lastOp.mountedThen /\ token # Null)
  /\ lastOp.op = "handleLogout" => ~intervalActive

\* The user logged out while a fetch of the view was still in flight, so the
\* view was mounted with its interval set, and the interval is cancelled.
C20_Witness ==
  /\ lastOp.op = "handleLogout"
  /\ convInflight # <<>>
  /\ \E i \in 1..Len(convInflight) : convInflight[i].fromPoll
  /\ token = Null
  /\ ~intervalActive

----------------------------------------------------------------------------
(* Claims about the thread loader, the composer and the realtime events *)
(* (SpecThread) *)

\* C21: the mark-read request never blocks the display of the messages: while
\* the only fetchMessages calls still running are those whose message list
\* was already applied and that wait for mark-read, the thread is not in its
\* loading state; and settling mark-read sets no error.
C21_MarkReadNeverBlocks ==
  /\ ( /\ msgInflight # <<>>
       /\ \A i \in 1..Len(msgInflight) : msgInflight[i].stage = "markRead" )
       => ~loadingMessages
  /\ (lastOp.op = "markReadSettled" /\ msgInflight = <<>>) => ~loadingMessages

\* C26: on a successful send the confirmed message is appended as the last
\* element of the thread, the input is cleared, and one conversation-list
\* refresh is started in the step that completes the send.
C26_SendSuccess ==
  [][ lastOp'.op = "sendOk" =>
        /\ Len(messages') = Len(messages) + 1
        /\ messages' = Append(messages, messages'[Len(messages')])
        /\ messages'[Len(messages')].leadId = lastOp'.lead
        /\ messages'[Len(messages')].text = lastOp'.text
        /\ input' = <<>>
        /\ Len(lastOp'.refresh) = 1
        /\ Len(sendInflight') = Len(sendInflight) - 1 ]_vars

\* A send succeeded on a thread that already held a fetched message: the
\* confirmed message is behind it and the input is empty.
C26_Witness ==
  /\ lastOp.op = "sendOk"
  /\ Len(messages) = 2
  /\ messages[1].n = 1
  /\ messages[2].n = 0
  /\ messages[2].text = <<"h">>
  /\ input = <<>>
  /\ lastOp.refresh = <<FALSE>>

\* C27: when the send request fails an error is set, the input text is left
\* unchanged, no message is appended and no conversation-list refresh is
\* started.
C27_SendFailure ==
  [][ lastOp'.op = "sendFail" =>
        /\ msgError'
        /\ input' = input
        /\ messages' = messages
        /\ lastOp'.refresh = <<>> ]_vars

\* A send failed while the composer still held the text.
C27_Witness ==
  /\ lastOp.op = "sendFail"
  /\ msgError
  /\ trim(input) = <<"h">>
  /\ sendInflight = <<>>

----------------------------------------------------------------------------
(* Claims about the realtime events (SpecRealtime) *)

\* C24: a newMessage event is appended to the thread exactly when its leadId
\* is the identifier of the conversation selected when it is delivered; an
\* inbound one then also triggers mark-read; an event for any other lead
\* leaves the message list unchanged.
C24_AppendForOpenThread ==
  [][ lastOp'.op = "handleNewMessage" =>
        /\ (messages' # messages)
             <=> (lastOp'.lead # NoConv /\ lastOp'.lead = selectedConv)
        /\ (messages' # messages)
             => /\ messages' = Append(messages, messages'[Len(messages')])
                /\ messages'[Len(messages')].leadId = lastOp'.lead
        /\ lastOp'.markRead
             <=> (messages' # messages /\ lastOp'.direction = "inbound") ]_vars

\* C25: a message:new event starts a fetch of the thread's messages exactly
\* when its leadId is the identifier of the conversation selected when it is
\* delivered.
C25_RefetchForOpenThread ==
  [][ lastOp'.op = "handleServerMessageNew" =>
        /\ (msgInflight' # msgInflight)
             <=> (lastOp'.lead # NoConv /\ lastOp'.lead = selectedConv)
        /\ (msgInflight' # msgInflight)
             => msgInflight' =
                  Append(msgInflight,
                         [lead |-> lastOp'.lead, stage |-> "fetch"]) ]_vars

----------------------------------------------------------------------------
(* Claims about the refreshes of the conversation list (SpecSync, SpecDiff) *)

\* C22: the refresh after a successful send and the refresh after a realtime
\* event run like a background poll: they are dispatched with fromPoll set
\* and leave the spinner alone, and their response is diffed against the
\* previous snapshot and surfaces a banner whenever a poll's would.
C22_ManualRefreshLikePoll ==
  [][ /\ ( /\ lastOp'.op \in {"sendSettled", "realtimeEvent"}
           /\ convInflight' # convInflight )
          => /\ convInflight'[Len(convInflight')].fromPoll
             /\ loadingConvs' = loadingConvs
      /\ ( /\ lastOp'.op = "convFetchOk"
           /\ lastOp'.cause \in {"send", "event"}
           /\ mounted )
          => /\ lastOp'.diffed = diffRuns(TRUE, conversationsRef)
             /\ lastOp'.shown =
                  (computeNewestInbound(TRUE, conversationsRef, lastOp'.resp)
                     # Null) ]_vars

\* C23: every newMessage and every message:new event delivered to the view
\* starts one background refresh of the conversation list, whatever its
\* leadId.
C23_EventAlwaysRefreshes ==
  [][ lastOp'.op = "realtimeEvent" =>
        /\ Len(convInflight') = Len(convInflight) + 1
        /\ convInflight'[Len(convInflight')].fromPoll ]_vars

\* The latest last-message time among the newly notified conversations.
LatestNotified ==
  CHOOSE t \in 0..MaxTime :
    /\ \E i \in NewlyNotified : list[i].lastMessageTime = t
    /\ \A i \in NewlyNotified : list[i].lastMessageTime <= t

C30_LastCompletedWins ==
  /\ (lastOp.op = "convFetchOk" /\ lastOp.mountedThen) =>
        conversations = lastOp.resp
  /\ lastOp.op = "refSyncEffect" => conversationsRef = conversations

\* Of two overlapping fetches the one dispatched later completed first,
\* surfaced a banner, and its response is the stored list.
C30_Witness ==
  /\ lastOp.op = "convFetchOk"
  /\ lastOp.mountedThen
  /\ lastOp.pending = 2
  /\ lastOp.index = 2
  /\ lastOp.shown
  /\ conversations = lastOp.resp
  /\ convInflight # <<>>

----------------------------------------------------------------------------
(* Voice registration *)

\* The native and network calls the latest step of the voice client invoked.
Invoked == IF "did" \in DOMAIN lastOp THEN lastOp.did ELSE {}

\* C31: tv.connect is never invoked before a tv.register call has finished
\* successfully (a registered token is held when connect is invoked), and
\* tv.register is never invoked while a registered token is held.
C31_ConnectAfterRegister ==
  /\ "connect" \in Invoked => registeredToken # Null
  /\ "register" \in Invoked => registeredToken = Null

\* C40: an outbound call started while the held registration was made
\* under another auth token than the current one fetches a new voice token
\* (under the current auth token) and registers again before it connects.
C40_RegistrationFollowsUser ==
  ( /\ lastOp.op = "startOutboundCallFromMobile"
    /\ ~lastOp.thrown
    /\ mobileAuthToken # Null
    /\ registeredToken # Null
    /\ registeredToken[1].under # mobileAuthToken )
  => ( /\ "fetch" \in Invoked
       /\ calls[Len(calls)].bearer = mobileAuthToken )

----------------------------------------------------------------------------
(* Failures of the conversation-list fetch *)

\* A failure leaves the polling interval set, and a poll tick dispatches a
\* background fetch.
PollingGoesOn ==
  /\ (lastOp.op = "convFetchFail" /\ lastOp.mountedThen) => intervalActive
  /\ lastOp.op = "pollTick" =>
        /\ convInflight # <<>>
        /\ convInflight[Len(convInflight)].fromPoll

\* The latest step is the ok response of a fetch that was dispatched while
\* the error of a failed fetch was set.
RetrySucceeded ==
  /\ lastOp.op = "convFetchOk"
  /\ lastOp.mountedThen
  /\ lastOp.retry

\* C32: no failure stops the polling timer, the poll tick after a failure
\* dispatches a new fetch, and when a fetch dispatched after a failure
\* succeeds the error is cleared and the stored list is its response.
C32_PollingRetries ==
  /\ PollingGoesOn
  /\ RetrySucceeded => (~convError /\ conversations = lastOp.resp)

----------------------------------------------------------------------------
(* The logout sequence *)

\* C33: after handleLogout followed by the cleanup of the mounted
\* conversations view, the registry holds no socket and no identity, and
\* the auth token, the user, the deep-link target and the voice client's
\* auth token are null.
C33_LogoutTearsDown ==
  (lastOp.op = "viewCleanup" /\ lastOp.after = "disconnectSocket")
  => ( /\ gsocket = NoSocket
       /\ gemail = Null
       /\ token = Null
       /\ user = Null
       /\ deepLinkTarget = Null
       /\ mobileAuthToken = Null )

----------------------------------------------------------------------------
(* The initial mode of fetchConversations *)

\* The latest step dispatched a fetch in initial mode for the mounted view.
InitialDispatched ==
  /\ mounted
  /\ lastOp.op \in {"navigateTo", "handleNotificationData", "sendSettled",
                    "realtimeEvent"}
  /\ convInflight # <<>>
  /\ ~convInflight[Len(convInflight)].fromPoll

\* The latest step settled a fetch in initial mode.
InitialSettled ==
  /\ lastOp.op \in {"convFetchOk", "convFetchFail"}
  /\ ~lastOp.poll

----------------------------------------------------------------------------
(* The banner *)

\* The latest step showed a banner.
BannerShown == lastOp.op = "convFetchOk" /\ lastOp.shown

\* The timeout of the banner fired, or the banner was pressed: the banner is
\* hidden, and a press selects the entry of the current list that has the
\* banner's identifier, or the banner's conversation when there is none.
BannerHidden ==
  /\ (lastOp.op = "bannerTimerFires" /\ lastOp.mountedThen) => ~bannerVisible
  /\ lastOp.op = "handleBannerPress" =>
        /\ ~bannerVisible
        /\ selectedConv = bannerConv[1].id
        /\ lastOp.match =
             IF \E k \in 1..Len(conversations) :
                  conversations[k].id = bannerConv[1].id
               THEN conversations[
                      CHOOSE k \in 1..Len(conversations) :
                        /\ conversations[k].id = bannerConv[1].id
                        /\ \A j \in 1..(k - 1) :
                              conversations[j].id # bannerConv[1].id]
               ELSE bannerConv[1]

\* C35: a banner is hidden when its timeout fires and when it is pressed
\* (the press selecting the banner's conversation, taken from the current
\* list when it is there), and every banner shown is eventually hidden
\* unless a further banner is shown.
C35_BannerHides ==
  /\ []BannerHidden
  /\ [](bannerVisible => <>(~bannerVisible \/ BannerShown))

\* The banner was pressed while the list held another entry for its
\* conversation than the one the banner was shown for.
C35_Witness ==
  /\ lastOp.op = "handleBannerPress"
  /\ lastOp.match # bannerConv[1]
  /\ ~bannerVisible

----------------------------------------------------------------------------
(* Sent messages in the open thread *)

\* C36: the newMessage echo of a sent message does not add the message to
\* the open thread when the thread already holds it from the send's
\* success.
C36_SentAppearsOnce ==
  (lastOp.op = "handleNewMessage" /\ "echo" \in DOMAIN lastOp /\ lastOp.had)
  => ~lastOp.added

\* C37: the message confirmed for a send is appended only while the
\* conversation it was sent to is the selected one.
C37_AppendedToOwnThread ==
  lastOp.op = "sendOk" => lastOp.lead = selectedConv

----------------------------------------------------------------------------
(* Overlapping refreshes and failed fetches *)

\* C38: a response that only re-confirms the stored list (the same unread
\* values as the response handled before it) shows no banner.
C38_OneBannerPerIncrease ==
  [][ ( /\ lastOp'.op = "convFetchOk"
        /\ lastOp'.mountedThen
        /\ lastOp'.resp = conversations )
      => ~lastOp'.shown ]_vars

\* C39: a fetch that fails on the mounted view, in either mode, leaves the
\* empty list stored and the error set; a poll dispatched after a failure
\* and answered while that empty list is the snapshot compares against an
\* empty previous snapshot and surfaces no banner.
C39_FailureDiscardsList ==
  [][ /\ (lastOp'.op = "convFetchFail" /\ lastOp'.mountedThen)
         => (conversations' = <<>> /\ convError')
      /\ ( /\ lastOp'.op = "convFetchOk"
           /\ lastOp'.poll
           /\ lastOp'.retry
           /\ lastOp'.mountedThen
           /\ conversations = <<>>
           /\ ~refSyncDue )
         => (lastOp'.prevEmpty /\ ~lastOp'.diffed /\ ~lastOp'.shown)
    ]_vars

\* A background poll failed while a list was displayed: the list is gone
\* (the snapshot still holds it until its effect runs) and the error is set.
C39_Witness ==
  /\ lastOp.op = "convFetchFail"
  /\ lastOp.poll
  /\ lastOp.mountedThen
  /\ conversationsRef # <<>>
  /\ conversations = <<>>
  /\ convError

====
